---- MODULE Spec2Model ----
(***************************************************************************)
(* The global registry of @opentelemetry/api (internal/global-utils.ts):   *)
(* registerGlobal, getGlobal and unregisterGlobal acting on the shared     *)
(* global object, called by several independently loaded copies of the     *)
(* module.  Every call is synchronous, so one call is one atomic step.     *)
(***************************************************************************)
EXTENDS Integers, Sequences, FiniteSets, TLC

\* ------------------------------------------------------------------ bounds

\* new Date().getMilliseconds() ranges over 0..999; the model uses 0..MsRange-1.
MsRange == 2

\* ------------------------------------------------------------ input domains

\* The loaded copies of the module.
Copies == {"c1", "c2"}

\* The build versions a copy can have, as <<major, minor, patch>>.
Versions == {<<1, 4, 0>>, <<1, 5, 0>>}

\* Two of the five capability names of OTelGlobalAPI.
Capabilities == {"diag", "trace"}

\* Opaque references to implementations (objects, hence truthy), by the type
\* OTelGlobalAPI gives the slot: two DiagLoggers and one TracerProvider.
InstancesOf == [diag |-> {"D", "D2"}, trace |-> {"T"}]

\* The rules the compatibility predicate may implement.
CompatRules == {"sameMajor", "exact", "never"}

\* JavaScript's undefined: an unset variable, a missing property, no result.
Undefined == "undefined"

VARIABLES
    VERSION,                       \* VERSION[c]: the build version of copy c (l.23)
    instanceId,                    \* instanceId[c]: new Date().getMilliseconds()
                                   \* read when copy c was loaded (l.30); a
                                   \* copy not yet loaded has none
    SCOPED_OPENTELEMETRY_API_KEY,  \* per copy: Undefined, or its scoped symbol (l.31)
    _global,                       \* the shared global object: symbol -> table (l.33)
    compatRule,                    \* the rule isCompatible implements (./semver)
    clock,                         \* what new Date().getMilliseconds() returns now
    last                           \* the last call: its arguments, whether the
                                   \* Primary Table existed and what the slot
                                   \* held before it, its result and the
                                   \* diagnostics it emitted

vars == <<VERSION, instanceId, SCOPED_OPENTELEMETRY_API_KEY, _global,
          compatRule, clock, last>>

\* ----------------------------------------------------- objects and symbols

\* obj[k] is set (no property is ever set to a falsy value: a table, a
\* non-empty version and an object reference are all truthy).
Has(obj, k) == k \in DOMAIN obj

\* obj[k] of a JavaScript object holding references: undefined when missing.
Prop(obj, k) == IF k \in DOMAIN obj THEN obj[k] ELSE Undefined

\* obj[k] = v
SetProp(obj, k, v) == [p \in DOMAIN obj \cup {k} |-> IF p = k THEN v ELSE obj[p]]

\* delete obj[k]
DeleteProp(obj, k) == [p \in DOMAIN obj \ {k} |-> obj[p]]

\* the empty object
EmptyObject == [p \in {} |-> Undefined]

\* { version: VERSION }
NewTable(version) == [p \in {"version"} |-> version]

\* const major = VERSION.split('.')[0]
major(version) == version[1]

\* Symbol.for(`opentelemetry.js.api.${major}`)
GLOBAL_OPENTELEMETRY_API_KEY(c) ==
    "opentelemetry.js.api." \o ToString(major(VERSION[c]))

\* Mutant of ScopedSymbol: the identifier is read from the clock when the key
\* is made, not when the module is loaded.
ScopedSymbolOfClock(c) ==
    "opentelemetry.js.api." \o ToString(major(VERSION[c]))
        \o ".instance." \o ToString(clock)

\* Symbol.for(`opentelemetry.js.api.${major}.instance.${instanceId}`)
ScopedSymbol(c) ==
    "opentelemetry.js.api." \o ToString(major(VERSION[c]))
        \o ".instance." \o ToString(instanceId[c])

\* Mutant of CreateOrFetch: `=` where the code has `??`, a fresh table each time.
CreateAlways(g, key, version) == SetProp(g, key, NewTable(version))

\* g[key] = g[key] ?? { version }
CreateOrFetch(g, key, version) ==
    IF Has(g, key) THEN g ELSE SetProp(g, key, NewTable(version))

\* ------------------------------------------------------------- diagnostics

DebugScoped == <<"debug", "Registered scoped instance">>
DebugRegistered == <<"debug", "Registered a global">>
DebugUnregistering == <<"debug", "Unregistering a global">>
ErrorDuplicate == <<"error", "Attempted duplicate registration of API">>
ErrorVersion == <<"error", "does not match previously registered API">>

\* The number of diag.error calls in a call's output.
RECURSIVE Errors(_)
Errors(diags) ==
    IF diags = <<>> THEN 0
    ELSE (IF Head(diags)[1] = "error" THEN 1 ELSE 0) + Errors(Tail(diags))

\* ---------------------------------------------------------- registerGlobal

\* if (allowOverride && !SCOPED_OPENTELEMETRY_API_KEY) SCOPED... = Symbol.for(...)
ScopedKeyAfter(c, allowOverride) ==
    IF allowOverride /\ SCOPED_OPENTELEMETRY_API_KEY[c] = Undefined
    THEN ScopedSymbol(c)
    ELSE SCOPED_OPENTELEMETRY_API_KEY[c]

\* if (allowOverride && SCOPED_OPENTELEMETRY_API_KEY)
ScopedPath(allowOverride, key) == allowOverride /\ key # Undefined

\* Mutant of ScopedWrite: the scoped slot is written only while it is empty.
ScopedWriteIfAbsent(g, key, version, type, instance) ==
    LET g1 == CreateOrFetch(g, key, version)
    IN  IF Has(g1[key], type) THEN g1
        ELSE SetProp(g1, key, SetProp(g1[key], type, instance))

\* scopedApi = (_global[key] = _global[key] ?? { version }); scopedApi[type] = instance
ScopedWrite(g, key, version, type, instance) ==
    LET g1 == CreateOrFetch(g, key, version)
    IN  SetProp(g1, key, SetProp(g1[key], type, instance))

\* Mutant of DuplicateRegistration: the flag is tested the wrong way round.
DuplicateFlagInverted(allowOverride, api, type) ==
    allowOverride /\ Has(api, type)

\* Mutant of DuplicateRegistration: the guard is missing.
DuplicateNeverChecked(allowOverride, api, type) == FALSE

\* if (!allowOverride && api[type])
DuplicateRegistration(allowOverride, api, type) ==
    ~allowOverride /\ Has(api, type)

\* Mutant of VersionMismatch: only the major versions are compared.
MajorMismatch(api, version) ==
    ~Has(api, "version") \/ major(api.version) # major(version)

\* if (api.version !== VERSION)
VersionMismatch(api, version) == ~Has(api, "version") \/ api.version # version

\* Mutant of PrimaryWrite: a slot already set keeps its instance.
PrimaryWriteIfAbsent(g, key, type, instance) ==
    IF Has(g[key], type) THEN g
    ELSE SetProp(g, key, SetProp(g[key], type, instance))

\* Mutant of PrimaryWrite: the write is lost.
PrimaryWriteLost(g, key, type, instance) == g

\* api[type] = instance
PrimaryWrite(g, key, type, instance) ==
    SetProp(g, key, SetProp(g[key], type, instance))

\* What slot `type` of the Primary Table of copy c holds when a call starts
\* (undefined when the table or the slot is missing), kept in `last`.
SlotBefore(c, type) ==
    IF Has(_global, GLOBAL_OPENTELEMETRY_API_KEY(c))
    THEN Prop(_global[GLOBAL_OPENTELEMETRY_API_KEY(c)], type)
    ELSE Undefined

\* Mutant of RegisterOutcome: the version guard runs before the duplicate guard.
RegisterVersionFirst(c, type, instance, allowOverride) ==
    LET skey == ScopedKeyAfter(c, allowOverride)
        scoped == ScopedPath(allowOverride, skey)
        g1 == IF scoped
              THEN ScopedWrite(_global, skey, VERSION[c], type, instance)
              ELSE _global
        d1 == IF scoped THEN <<DebugScoped>> ELSE <<>>
        pkey == GLOBAL_OPENTELEMETRY_API_KEY(c)
        g2 == CreateOrFetch(g1, pkey, VERSION[c])
        api == g2[pkey]
    IN  IF VersionMismatch(api, VERSION[c])
        THEN [g |-> g2, skey |-> skey, ret |-> FALSE,
              diags |-> Append(d1, ErrorVersion)]
        ELSE IF DuplicateRegistration(allowOverride, api, type)
        THEN [g |-> g2, skey |-> skey, ret |-> FALSE,
              diags |-> Append(d1, ErrorDuplicate)]
        ELSE [g |-> PrimaryWrite(g2, pkey, type, instance), skey |-> skey,
              ret |-> TRUE, diags |-> Append(d1, DebugRegistered)]

\* The whole of registerGlobal: the global object, the module's scoped key,
\* the result and the diagnostics after the call.
RegisterOutcome(c, type, instance, allowOverride) ==
    LET skey == ScopedKeyAfter(c, allowOverride)
        scoped == ScopedPath(allowOverride, skey)
        g1 == IF scoped
              THEN ScopedWrite(_global, skey, VERSION[c], type, instance)
              ELSE _global
        d1 == IF scoped THEN <<DebugScoped>> ELSE <<>>
        pkey == GLOBAL_OPENTELEMETRY_API_KEY(c)
        g2 == CreateOrFetch(g1, pkey, VERSION[c])
        api == g2[pkey]
    IN  IF DuplicateRegistration(allowOverride, api, type)
        THEN [g |-> g2, skey |-> skey, ret |-> FALSE,
              diags |-> Append(d1, ErrorDuplicate)]
        ELSE IF VersionMismatch(api, VERSION[c])
        THEN [g |-> g2, skey |-> skey, ret |-> FALSE,
              diags |-> Append(d1, ErrorVersion)]
        ELSE [g |-> PrimaryWrite(g2, pkey, type, instance), skey |-> skey,
              ret |-> TRUE, diags |-> Append(d1, DebugRegistered)]

registerGlobal(c, type, instance, allowOverride) ==
    /\ Has(instanceId, c)
    /\ \E out \in {RegisterOutcome(c, type, instance, allowOverride)} :
        /\ _global' = out.g
        /\ SCOPED_OPENTELEMETRY_API_KEY' =
               [SCOPED_OPENTELEMETRY_API_KEY EXCEPT ![c] = out.skey]
        /\ last' = [op |-> "register", copy |-> c, type |-> type,
                    instance |-> instance, allowOverride |-> allowOverride,
                    hadApi |-> Has(_global, GLOBAL_OPENTELEMETRY_API_KEY(c)),
                    before |-> SlotBefore(c, type),
                    ret |-> out.ret, diags |-> out.diags]
        /\ UNCHANGED <<VERSION, instanceId, compatRule, clock>>

\* --------------------------------------------------------------- getGlobal

\* isCompatible(globalVersion) of copy c, against c's own version.
isCompatible(c, globalVersion) ==
    CASE compatRule = "sameMajor" -> major(globalVersion) = major(VERSION[c])
      [] compatRule = "exact" -> globalVersion = VERSION[c]
      [] OTHER -> FALSE

\* Mutant of GetResult: the compatibility gate is missing.
GetUngated(g, c, type) ==
    LET key == GLOBAL_OPENTELEMETRY_API_KEY(c)
    IN  IF ~Has(g, key) \/ ~Has(g[key], "version")
        THEN Undefined
        ELSE Prop(g[key], type)

\* Mutant of GetResult: the caller's Scoped Table is consulted first.
GetScopedFirst(g, c, type) ==
    LET key == GLOBAL_OPENTELEMETRY_API_KEY(c)
        skey == SCOPED_OPENTELEMETRY_API_KEY[c]
    IN  IF skey # Undefined /\ Has(g, skey) /\ Has(g[skey], type)
        THEN g[skey][type]
        ELSE IF \/ ~Has(g, key)
                \/ ~Has(g[key], "version")
                \/ ~isCompatible(c, g[key].version)
        THEN Undefined
        ELSE Prop(g[key], type)

\* The result of getGlobal(type) called by copy c on global object g.
GetResult(g, c, type) ==
    LET key == GLOBAL_OPENTELEMETRY_API_KEY(c)
    IN  IF \/ ~Has(g, key)
           \/ ~Has(g[key], "version")
           \/ ~isCompatible(c, g[key].version)
        THEN Undefined
        ELSE Prop(g[key], type)

getGlobal(c, type) ==
    /\ Has(instanceId, c)
    /\ last' = [op |-> "get", copy |-> c, type |-> type,
                instance |-> Undefined, allowOverride |-> FALSE,
                hadApi |-> Has(_global, GLOBAL_OPENTELEMETRY_API_KEY(c)),
                before |-> SlotBefore(c, type),
                ret |-> GetResult(_global, c, type), diags |-> <<>>]
    /\ UNCHANGED <<VERSION, instanceId, SCOPED_OPENTELEMETRY_API_KEY, _global,
                   compatRule, clock>>

\* -------------------------------------------------------- unregisterGlobal

\* Mutant of UnregisterOutcome: every slot of the table is cleared.
UnregisterClearsTable(g, key, type) ==
    IF Has(g, key)
    THEN SetProp(g, key, NewTable(g[key].version))
    ELSE g

\* Mutant of UnregisterOutcome: `delete _global[key]`, the table goes.
UnregisterDeletesTable(g, key, type) == DeleteProp(g, key)

\* Mutant of UnregisterOutcome: the slot is deleted from every table of the
\* global object, the Scoped Tables included.
UnregisterEverywhere(g, key, type) == [k \in DOMAIN g |-> DeleteProp(g[k], type)]

\* Mutant of UnregisterOutcome: a table left without slots is removed.
UnregisterDropsEmptyTable(g, key, type) ==
    IF Has(g, key)
    THEN IF DOMAIN g[key] \subseteq {"version", type}
         THEN DeleteProp(g, key)
         ELSE SetProp(g, key, DeleteProp(g[key], type))
    ELSE g

\* const api = _global[key]; if (api) delete api[type]
UnregisterOutcome(g, key, type) ==
    IF Has(g, key)
    THEN SetProp(g, key, DeleteProp(g[key], type))
    ELSE g

\* Mutant of unregisterGlobal: only a copy of the stamped version may delete.
unregisterSameVersionOnly(c, type) ==
    /\ Has(instanceId, c)
    /\ _global' =
           IF /\ Has(_global, GLOBAL_OPENTELEMETRY_API_KEY(c))
              /\ _global[GLOBAL_OPENTELEMETRY_API_KEY(c)].version = VERSION[c]
           THEN UnregisterOutcome(_global, GLOBAL_OPENTELEMETRY_API_KEY(c), type)
           ELSE _global
    /\ last' = [op |-> "unregister", copy |-> c, type |-> type,
                instance |-> Undefined, allowOverride |-> FALSE,
                hadApi |-> Has(_global, GLOBAL_OPENTELEMETRY_API_KEY(c)),
                before |-> SlotBefore(c, type),
                ret |-> Undefined, diags |-> <<DebugUnregistering>>]
    /\ UNCHANGED <<VERSION, instanceId, SCOPED_OPENTELEMETRY_API_KEY,
                   compatRule, clock>>

unregisterGlobal(c, type) ==
    /\ Has(instanceId, c)
    /\ _global' = UnregisterOutcome(_global, GLOBAL_OPENTELEMETRY_API_KEY(c), type)
    /\ last' = [op |-> "unregister", copy |-> c, type |-> type,
                instance |-> Undefined, allowOverride |-> FALSE,
                hadApi |-> Has(_global, GLOBAL_OPENTELEMETRY_API_KEY(c)),
                before |-> SlotBefore(c, type),
                ret |-> Undefined, diags |-> <<DebugUnregistering>>]
    /\ UNCHANGED <<VERSION, instanceId, SCOPED_OPENTELEMETRY_API_KEY,
                   compatRule, clock>>

\* ------------------------------------------------------------ specification

\* The state after every copy has been loaded and before any call.
NoCall == [op |-> "none", copy |-> Undefined, type |-> Undefined,
           instance |-> Undefined, allowOverride |-> FALSE, hadApi |-> FALSE,
           before |-> Undefined,
           ret |-> Undefined, diags |-> <<>>]

Init ==
    /\ VERSION \in [Copies -> Versions]
    /\ instanceId \in [Copies -> 0 .. (MsRange - 1)]
    /\ SCOPED_OPENTELEMETRY_API_KEY = [c \in Copies |-> Undefined]
    /\ _global = EmptyObject
    /\ compatRule \in CompatRules
    /\ clock = 0
    /\ last = NoCall

Register ==
    \E c \in Copies, type \in Capabilities, allowOverride \in BOOLEAN :
        \E instance \in InstancesOf[type] :
            registerGlobal(c, type, instance, allowOverride)

Get == \E c \in Copies, type \in Capabilities : getGlobal(c, type)

Unregister == \E c \in Copies, type \in Capabilities : unregisterGlobal(c, type)

Next == Register \/ Get \/ Unregister

Spec == Init /\ [][Next]_vars

\* ------------------------------------------------ loading and the clock

\* Copy c is loaded: const instanceId = new Date().getMilliseconds()
loadModule(c) ==
    /\ ~Has(instanceId, c)
    /\ instanceId' = SetProp(instanceId, c, clock)
    /\ UNCHANGED <<VERSION, SCOPED_OPENTELEMETRY_API_KEY, _global, compatRule,
                   clock, last>>

\* A millisecond passes; getMilliseconds() wraps around.
Tick ==
    /\ clock' = (clock + 1) % MsRange
    /\ UNCHANGED <<VERSION, instanceId, SCOPED_OPENTELEMETRY_API_KEY, _global,
                   compatRule, last>>

\* The state before any copy is loaded.  The compatibility predicate plays
\* no part in loading or in the scoped key: the same-major rule stands for
\* it.  The code only compares versions for equality, so the first copy's
\* version is fixed and the second copy's is equal to it or not.
InitLoad ==
    /\ VERSION \in {v \in [Copies -> Versions] : v["c1"] = <<1, 4, 0>>}
    /\ instanceId = EmptyObject
    /\ SCOPED_OPENTELEMETRY_API_KEY = [c \in Copies |-> Undefined]
    /\ _global = EmptyObject
    /\ compatRule = "sameMajor"
    /\ clock \in 0 .. (MsRange - 1)
    /\ last = NoCall

Load == \E c \in Copies : loadModule(c)

NextLoad == Load \/ Tick \/ Register \/ Get \/ Unregister

\* The copies are loaded one by one while time passes, and call as in Spec.
SpecLoad == InitLoad /\ [][NextLoad]_vars

\* -------------------------------------------------------------- properties

\* The copy's own version passes its own compatibility predicate.
SelfCompatible(c) == isCompatible(c, VERSION[c])

\* The primary table copy c sees in global object g (only when it exists).
PrimaryOf(g, c) == g[GLOBAL_OPENTELEMETRY_API_KEY(c)]

\* Copy c sees a primary table in global object g.
HasPrimary(g, c) == Has(g, GLOBAL_OPENTELEMETRY_API_KEY(c))

\* C1: a non-override register(C, I) that finds no Primary Table, issued by a
\* copy whose version is self-compatible, returns true, and a get(C) issued
\* right after it returns I.
C1_RegisterThenGet ==
    (/\ last.op = "register"
     /\ ~last.allowOverride
     /\ ~last.hadApi
     /\ SelfCompatible(last.copy))
        => (/\ last.ret = TRUE
            /\ GetResult(_global, last.copy, last.type) = last.instance)

\* C1 witness: such a first registration has happened and get returns I.
C1_Witness ==
    /\ last.op = "register"
    /\ ~last.allowOverride
    /\ ~last.hadApi
    /\ SelfCompatible(last.copy)
    /\ last.ret = TRUE
    /\ GetResult(_global, last.copy, last.type) = last.instance

\* The step is the second call of C2's scenario: the last call was an override
\* register(C, I1) that found no Primary Table, and this call is a
\* non-override register(C, I2) of the same copy with I2 # I1.
C2_Scenario ==
    /\ last.op = "register"
    /\ last.allowOverride
    /\ ~last.hadApi
    /\ last'.op = "register"
    /\ ~last'.allowOverride
    /\ last'.copy = last.copy
    /\ last'.type = last.type
    /\ last'.instance # last.instance

\* C2 as stated (read with C1's proviso that the version is self-compatible):
\* after register(C, I1, override) and register(C, I2, no override) on a
\* fresh registry, get(C) returns I2.
C2_Original ==
    [][(C2_Scenario /\ SelfCompatible(last.copy))
          => GetResult(_global', last.copy, last.type) = last'.instance]_vars

\* C2 amended: in that scenario the second call is rejected (it returns
\* false) and get(C) returns I1, the instance the override call wrote to the
\* Primary Table, when the version is self-compatible and absent otherwise.
C2_OverrideWritesPrimary ==
    [][C2_Scenario
          => (/\ last'.ret = FALSE
              /\ GetResult(_global', last.copy, last.type) =
                     IF SelfCompatible(last.copy) THEN last.instance
                     ELSE Undefined)]_vars

\* C2 witness: a non-override register(C, I2) was rejected as a duplicate by a
\* copy that has registered with override, and get(C) returns another instance.
C2_Witness ==
    /\ last.op = "register"
    /\ ~last.allowOverride
    /\ last.ret = FALSE
    /\ last.diags = <<ErrorDuplicate>>
    /\ SCOPED_OPENTELEMETRY_API_KEY[last.copy] # Undefined
    /\ GetResult(_global, last.copy, last.type) \in
           InstancesOf[last.type] \ {last.instance}

\* C3: a non-override register(C, I2) in a state where slot C of the Primary
\* Table is set returns false, leaves the Primary Table (every slot and the
\* version stamp) as it was, and get(C) returns what it returned before, for
\* every copy.
C3_DuplicateRejected ==
    [][(/\ last'.op = "register"
        /\ ~last'.allowOverride
        /\ HasPrimary(_global, last'.copy)
        /\ Has(PrimaryOf(_global, last'.copy), last'.type))
          => (/\ last'.ret = FALSE
              /\ HasPrimary(_global', last'.copy)
              /\ PrimaryOf(_global', last'.copy) = PrimaryOf(_global, last'.copy)
              /\ \A c \in Copies :
                     GetResult(_global', c, last'.type) =
                         GetResult(_global, c, last'.type))]_vars

\* C3 witness: a non-override registration of another instance was rejected
\* as a duplicate and the slot still holds the first instance.
C3_Witness ==
    /\ last.op = "register"
    /\ ~last.allowOverride
    /\ last.ret = FALSE
    /\ last.diags = <<ErrorDuplicate>>
    /\ SelfCompatible(last.copy)
    /\ GetResult(_global, last.copy, last.type) # Undefined
    /\ GetResult(_global, last.copy, last.type) # last.instance

\* C4: a register call (any capability, instance and flag) by a copy whose
\* version differs from the stamp of the existing Primary Table returns false
\* and leaves every slot and the stamp of the Primary Table as they were.
C4_VersionMismatchRejected ==
    [][(/\ last'.op = "register"
        /\ HasPrimary(_global, last'.copy)
        /\ PrimaryOf(_global, last'.copy).version # VERSION[last'.copy])
          => (/\ last'.ret = FALSE
              /\ HasPrimary(_global', last'.copy)
              /\ PrimaryOf(_global', last'.copy) =
                     PrimaryOf(_global, last'.copy))]_vars

\* C4 witness: an override registration of a free slot was rejected for the
\* version alone.
C4_Witness ==
    /\ last.op = "register"
    /\ last.allowOverride
    /\ last.ret = FALSE
    /\ last.diags = <<DebugScoped, ErrorVersion>>
    /\ ~Has(PrimaryOf(_global, last.copy), last.type)
    /\ PrimaryOf(_global, last.copy).version # VERSION[last.copy]

\* The symbols under which the copies look for their Primary Table.
PrimaryKeys == {GLOBAL_OPENTELEMETRY_API_KEY(c) : c \in Copies}

\* C5: the version stamp of a Primary Table is set by the register call that
\* creates the table, to the version of the calling copy, and no later call
\* of any copy (register, get or unregister) changes or removes it.
C5_StampImmutable ==
    [][\A k \in PrimaryKeys :
          /\ Has(_global, k)
                => (/\ Has(_global', k)
                    /\ Has(_global'[k], "version")
                    /\ _global'[k].version = _global[k].version)
          /\ (~Has(_global, k) /\ Has(_global', k))
                => (/\ last'.op = "register"
                    /\ GLOBAL_OPENTELEMETRY_API_KEY(last'.copy) = k
                    /\ _global'[k].version = VERSION[last'.copy])]_vars

\* C5 witness: both capabilities are registered, a copy of another version
\* has just called register, and the stamp is still the other version.
C5_Witness ==
    /\ last.op = "register"
    /\ HasPrimary(_global, last.copy)
    /\ Has(PrimaryOf(_global, last.copy), "diag")
    /\ Has(PrimaryOf(_global, last.copy), "trace")
    /\ PrimaryOf(_global, last.copy).version # VERSION[last.copy]

\* C6: unregister(A) in a state where A and another capability B are both
\* registered makes get(A) absent for every copy, leaves get(B) as it was,
\* and changes nothing of the Primary Table but slot A.
C6_UnregisterOneSlot ==
    [][(/\ last'.op = "unregister"
        /\ HasPrimary(_global, last'.copy)
        /\ \A t \in Capabilities : Has(PrimaryOf(_global, last'.copy), t))
          => (/\ HasPrimary(_global', last'.copy)
              /\ DOMAIN PrimaryOf(_global', last'.copy) =
                     DOMAIN PrimaryOf(_global, last'.copy) \ {last'.type}
              /\ \A p \in DOMAIN PrimaryOf(_global', last'.copy) :
                     PrimaryOf(_global', last'.copy)[p] =
                         PrimaryOf(_global, last'.copy)[p]
              /\ \A c \in Copies :
                     /\ GetResult(_global', c, last'.type) = Undefined
                     /\ \A t \in Capabilities \ {last'.type} :
                            GetResult(_global', c, t) =
                                GetResult(_global, c, t))]_vars

\* C6 witness: a capability has just been unregistered while the other one
\* is still registered and still returned by get.
C6_Witness ==
    /\ last.op = "unregister"
    /\ HasPrimary(_global, last.copy)
    /\ ~Has(PrimaryOf(_global, last.copy), last.type)
    /\ GetResult(_global, last.copy, last.type) = Undefined
    /\ \E t \in Capabilities \ {last.type} :
           /\ Has(PrimaryOf(_global, last.copy), t)
           /\ GetResult(_global, last.copy, t) = PrimaryOf(_global, last.copy)[t]

\* C7: get(C) returns absent whenever the Primary Table is absent, its
\* version is absent or the compatibility predicate rejects the stamp; with a
\* predicate that is always false it returns absent whatever the table holds.
C7_CompatibilityGate ==
    last.op = "get"
        => (/\ (\/ ~HasPrimary(_global, last.copy)
                \/ ~Has(PrimaryOf(_global, last.copy), "version")
                \/ ~isCompatible(last.copy,
                                 PrimaryOf(_global, last.copy).version))
                   => last.ret = Undefined
            /\ compatRule = "never" => last.ret = Undefined)

\* C7 witness: get returned absent for a registered capability because the
\* predicate is always false.
C7_Witness ==
    /\ last.op = "get"
    /\ compatRule = "never"
    /\ HasPrimary(_global, last.copy)
    /\ Has(PrimaryOf(_global, last.copy), last.type)
    /\ last.ret = Undefined

\* The error diagnostic a register call must emit in the state before it:
\* the duplicate-registration error when the slot is set and the call is not
\* an override, else the version error when the stamp differs, else none.
ExpectedError(c, type, allowOverride) ==
    IF ~HasPrimary(_global, c) THEN <<>>
    ELSE IF ~allowOverride /\ Has(PrimaryOf(_global, c), type)
    THEN <<ErrorDuplicate>>
    ELSE IF PrimaryOf(_global, c).version # VERSION[c]
    THEN <<ErrorVersion>>
    ELSE <<>>

\* The diagnostics of level "error" among a call's output.
ErrorsOf(diags) == SelectSeq(diags, LAMBDA d : d[1] = "error")

\* C8: every register call ends with a boolean; it returns false exactly when
\* it emits exactly one error diagnostic, the duplicate error taking
\* precedence over the version error, and true exactly when it emits none.
\* A successful non-override registration followed by a non-override
\* registration of the same capability gives one error call in total.
C8_BooleanAndOneError ==
    [][last'.op = "register"
          => (/\ last'.ret \in BOOLEAN
              /\ last'.ret = FALSE <=> Errors(last'.diags) = 1
              /\ last'.ret = TRUE <=> Errors(last'.diags) = 0
              /\ ErrorsOf(last'.diags) =
                     ExpectedError(last'.copy, last'.type, last'.allowOverride)
              /\ (/\ last.op = "register"
                  /\ ~last.allowOverride
                  /\ last.ret = TRUE
                  /\ ~last'.allowOverride
                  /\ last'.copy = last.copy
                  /\ last'.type = last.type)
                    => Errors(last.diags) + Errors(last'.diags) = 1)]_vars

\* C8 witness: a call was rejected with the duplicate error alone although
\* the version guard would have rejected it too.
C8_Witness ==
    /\ last.op = "register"
    /\ last.ret = FALSE
    /\ last.diags = <<ErrorDuplicate>>
    /\ PrimaryOf(_global, last.copy).version # VERSION[last.copy]

\* C9: the table under the scoped key of every copy that has registered with
\* override carries that copy's own version.
C9_ScopedVersionIsOwn ==
    \A c \in Copies :
        SCOPED_OPENTELEMETRY_API_KEY[c] # Undefined
            => (/\ Has(_global, SCOPED_OPENTELEMETRY_API_KEY[c])
                /\ _global[SCOPED_OPENTELEMETRY_API_KEY[c]].version = VERSION[c])

\* C10: every override register call leaves its instance in the named slot of
\* the caller's Scoped Table and emits the scoped debug diagnostic first,
\* also when it returns false; the result is true exactly when the caller's
\* version equals the stamp of the Primary Table.
C10_ScopedWriteIndependent ==
    (last.op = "register" /\ last.allowOverride)
        => (/\ SCOPED_OPENTELEMETRY_API_KEY[last.copy] # Undefined
            /\ Has(_global, SCOPED_OPENTELEMETRY_API_KEY[last.copy])
            /\ Prop(_global[SCOPED_OPENTELEMETRY_API_KEY[last.copy]], last.type)
                   = last.instance
            /\ Head(last.diags) = DebugScoped
            /\ last.ret = (PrimaryOf(_global, last.copy).version
                               = VERSION[last.copy]))

\* C10 witness: an override call was rejected for the Primary Table, where
\* the slot holds another instance, and its instance is in the Scoped Table.
C10_Witness ==
    /\ last.op = "register"
    /\ last.allowOverride
    /\ last.ret = FALSE
    /\ Has(PrimaryOf(_global, last.copy), last.type)
    /\ PrimaryOf(_global, last.copy)[last.type] # last.instance
    /\ _global[SCOPED_OPENTELEMETRY_API_KEY[last.copy]][last.type] = last.instance

\* C11: a Primary Table comes into being only in a register call that
\* returns true and writes its slot; a register call that returns false, a
\* get and an unregister create none; a table once created is never removed.
C11_CreatedOnlyBySuccess ==
    [][\A k \in PrimaryKeys :
          /\ Has(_global, k) => Has(_global', k)
          /\ (~Has(_global, k) /\ Has(_global', k))
                => (/\ last'.op = "register"
                    /\ GLOBAL_OPENTELEMETRY_API_KEY(last'.copy) = k
                    /\ last'.ret = TRUE
                    /\ Prop(_global'[k], last'.type) = last'.instance)
          /\ (\/ last'.op \in {"get", "unregister"}
              \/ (last'.op = "register" /\ last'.ret = FALSE))
                => (Has(_global', k) => Has(_global, k))]_vars

\* C11 witness: an override registration found no Primary Table, created it,
\* returned true and wrote its slot.
C11_Witness ==
    /\ last.op = "register"
    /\ last.allowOverride
    /\ ~last.hadApi
    /\ last.ret = TRUE
    /\ HasPrimary(_global, last.copy)
    /\ PrimaryOf(_global, last.copy).version = VERSION[last.copy]
    /\ Prop(PrimaryOf(_global, last.copy), last.type) = last.instance

\* C12: an override register(C, I) by a copy whose version equals the stamp,
\* or that finds no Primary Table, returns true and sets slot C to I, also
\* when the slot holds another instance; get(C) then returns I when the
\* version is self-compatible.
C12_OverrideReplaces ==
    [][(/\ last'.op = "register"
        /\ last'.allowOverride
        /\ (HasPrimary(_global, last'.copy)
               => PrimaryOf(_global, last'.copy).version = VERSION[last'.copy]))
          => (/\ last'.ret = TRUE
              /\ Prop(PrimaryOf(_global', last'.copy), last'.type)
                     = last'.instance
              /\ SelfCompatible(last'.copy)
                    => GetResult(_global', last'.copy, last'.type)
                           = last'.instance)]_vars

\* C12 witness: an override registration replaced another instance and get
\* returns the new one.
C12_Witness ==
    /\ last.op = "register"
    /\ last.allowOverride
    /\ last.before # Undefined
    /\ last.before # last.instance
    /\ last.ret = TRUE
    /\ GetResult(_global, last.copy, last.type) = last.instance

\* The global object without its Scoped Tables.
PrimaryOnly(g) == [k \in DOMAIN g \cap PrimaryKeys |-> g[k]]

\* C13: get changes nothing of the shared global object or of the module's
\* scoped key, emits no diagnostic, and returns what it would return were
\* there no Scoped Table at all.
C13_GetIsPureRead ==
    [][last'.op = "get"
          => (/\ _global' = _global
              /\ SCOPED_OPENTELEMETRY_API_KEY' = SCOPED_OPENTELEMETRY_API_KEY
              /\ last'.diags = <<>>
              /\ last'.ret = GetResult(PrimaryOnly(_global), last'.copy,
                                       last'.type))]_vars

\* C13 witness: get returned the Primary Table's instance while the caller's
\* Scoped Table holds another one for the same capability.
C13_Witness ==
    /\ last.op = "get"
    /\ last.ret # Undefined
    /\ SCOPED_OPENTELEMETRY_API_KEY[last.copy] # Undefined
    /\ Has(_global[SCOPED_OPENTELEMETRY_API_KEY[last.copy]], last.type)
    /\ _global[SCOPED_OPENTELEMETRY_API_KEY[last.copy]][last.type] # last.ret

\* The symbols of the global object that hold Scoped Tables.
ScopedKeys(g) == DOMAIN g \ PrimaryKeys

\* C14: every unregister call emits exactly one debug diagnostic, creates no
\* Primary Table and leaves every Scoped Table as it was; and no call of any
\* kind removes a Scoped Table or one of its slots.
C14_UnregisterLeavesScoped ==
    [][/\ last'.op = "unregister"
          => (/\ last'.diags = <<DebugUnregistering>>
              /\ ~HasPrimary(_global, last'.copy)
                    => ~HasPrimary(_global', last'.copy)
              /\ ScopedKeys(_global') = ScopedKeys(_global)
              /\ \A k \in ScopedKeys(_global) : _global'[k] = _global[k])
       /\ \A k \in ScopedKeys(_global) :
              /\ Has(_global', k)
              /\ DOMAIN _global[k] \subseteq DOMAIN _global'[k]]_vars

\* C14 witness: a registered capability has just been unregistered and the
\* caller's Scoped Table still holds the instance of an override registration.
C14_Witness ==
    /\ last.op = "unregister"
    /\ last.before # Undefined
    /\ ~Has(PrimaryOf(_global, last.copy), last.type)
    /\ SCOPED_OPENTELEMETRY_API_KEY[last.copy] # Undefined
    /\ Has(_global[SCOPED_OPENTELEMETRY_API_KEY[last.copy]], last.type)

\* Every register call copy c could make now returns false.
AllRegistersRejected(c) ==
    \A type \in Capabilities, allowOverride \in BOOLEAN :
        \A instance \in InstancesOf[type] :
            RegisterOutcome(c, type, instance, allowOverride).ret = FALSE

\* C15: unregister(C) of a registered capability, by whichever copy shares
\* the Primary Table (its version may differ from the stamp), removes slot C,
\* and get(C) then returns absent for every copy.
C15_UnregisterUnguarded ==
    [][(/\ last'.op = "unregister"
        /\ HasPrimary(_global, last'.copy)
        /\ Has(PrimaryOf(_global, last'.copy), last'.type))
          => (/\ HasPrimary(_global', last'.copy)
              /\ ~Has(PrimaryOf(_global', last'.copy), last'.type)
              /\ \A c \in Copies :
                     GetResult(_global', c, last'.type) = Undefined)]_vars

\* C15 witness: a copy whose version differs from the stamp, and whose every
\* register call is rejected, has just removed a registered capability.
C15_Witness ==
    /\ last.op = "unregister"
    /\ last.before # Undefined
    /\ PrimaryOf(_global, last.copy).version # VERSION[last.copy]
    /\ AllRegistersRejected(last.copy)
    /\ ~Has(PrimaryOf(_global, last.copy), last.type)

\* Copy c finds in g a Primary Table stamped with another version than its own.
LockedOut(g, c) == HasPrimary(g, c) /\ PrimaryOf(g, c).version # VERSION[c]

\* C16: a copy that finds the Primary Table stamped with another version
\* finds it so ever after, whatever is unregistered, and every register call
\* it makes returns false.
C16_PermanentLockOut ==
    [][\A c \in Copies :
          LockedOut(_global, c)
              => (/\ LockedOut(_global', c)
                  /\ (last'.op = "register" /\ last'.copy = c)
                        => last'.ret = FALSE)]_vars

\* C16 witness: a register call was rejected for the version although every
\* capability has been unregistered and the table holds the stamp alone.
C16_Witness ==
    /\ last.op = "register"
    /\ last.ret = FALSE
    /\ Errors(last.diags) = 1
    /\ LockedOut(_global, last.copy)
    /\ DOMAIN PrimaryOf(_global, last.copy) = {"version"}

\* C17: a copy whose version differs from the stamp while its predicate
\* accepts the stamp gets from get(C) what the Primary Table holds, and every
\* register call it could make returns false; a register call that returned
\* true for a copy whose predicate rejects its own version is followed by
\* get(C) returning absent.
C17_GatesDiffer ==
    /\ \A c \in Copies :
           (LockedOut(_global, c)
               /\ isCompatible(c, PrimaryOf(_global, c).version))
              => (/\ AllRegistersRejected(c)
                  /\ \A type \in Capabilities :
                         GetResult(_global, c, type)
                             = Prop(PrimaryOf(_global, c), type)
                  /\ (last.op = "get" /\ last.copy = c)
                        => last.ret = Prop(PrimaryOf(_global, c), last.type))
    /\ (last.op = "register" /\ last.ret = TRUE /\ ~SelfCompatible(last.copy))
          => GetResult(_global, last.copy, last.type) = Undefined

\* C17 witness: get returned to a copy the instance another copy registered,
\* while every register call of the reading copy is rejected.
C17_Witness ==
    /\ last.op = "get"
    /\ LockedOut(_global, last.copy)
    /\ last.ret # Undefined
    /\ AllRegistersRejected(last.copy)

\* C17, second case reached: register returned true to a copy whose predicate
\* rejects its own version, and get returns absent for the slot just written.
C17_WitnessOwnVersionRejected ==
    /\ last.op = "register"
    /\ last.ret = TRUE
    /\ ~SelfCompatible(last.copy)
    /\ Has(PrimaryOf(_global, last.copy), last.type)
    /\ GetResult(_global, last.copy, last.type) = Undefined

\* The scoped symbol made of the identifier copy c read when it was loaded.
KeyOfLoadedId(c) ==
    "opentelemetry.js.api." \o ToString(major(VERSION[c]))
        \o ".instance." \o ToString(instanceId[c])

\* Copy c makes its first override registration in this step.
FirstOverride(c) ==
    /\ SCOPED_OPENTELEMETRY_API_KEY[c] = Undefined
    /\ SCOPED_OPENTELEMETRY_API_KEY'[c] # Undefined

====
